---- MODULE Spec2Model ----
(***************************************************************************)
(* edge-profile: translation of a configuration into registry policy       *)
(* entries (policy.rs), and their reconciliation with the HKCU Edge policy *)
(* key (registry.rs), driven by main (main.rs).                            *)
(*                                                                         *)
(* A registry key is a record [present, values, subkeys]; values maps a    *)
(* value name to <<type, data>>, subkeys maps a child name to its values.  *)
(* Option<T> is a sequence of length at most one.  Text is a sequence of   *)
(* string fragments, so that prefix stripping and formatting are real      *)
(* operations.                                                             *)
(***************************************************************************)
EXTENDS Integers, Sequences, FiniteSets, TLC

VARIABLES
    store,      \* HKCU\SOFTWARE\Policies\Microsoft\Edge
    hklm,       \* HKLM\SOFTWARE\Policies\Microsoft\Edge (read only)
    cfg,        \* the configuration of the last apply invocation
    entries,    \* the batch built by the last apply invocation
    cmd,        \* the last invocation: "none", "build", "apply", "dry_run", "clean"
    pre,        \* store at the start of the last invocation
    result,     \* what the last invocation returned: "ok" or the error context
    log,        \* the store calls of the last invocation, in call order
    report,     \* the "Removed ..." lines printed by the last clean
    warned,     \* the "HKLM: name" lines printed by the last precedence check
    calls,      \* the functions that main called in the last invocation, in order
    race        \* the apply invocations that run at the same time, none in Spec

vars == <<store, hklm, cfg, entries, cmd, pre, result, log, report, warned, calls, race>>

----------------------------------------------------------------------------
(* Bounds *)

\* longest extensions mapping of a configuration
MaxExts == 2
\* most store calls that the store refuses in one invocation
MaxFaults == 1

----------------------------------------------------------------------------
(* policy.rs: values and entries *)

None == <<>>
Some(x) == <<x>>

Dword(v) == <<"REG_DWORD", v>>
Sz(s) == <<"REG_SZ", s>>

PolicyEntry(subkey, name, value) == [subkey |-> subkey, name |-> name, value |-> value]

dword(subkey, name, value) == PolicyEntry(subkey, name, Dword(value))
sz(subkey, name, value) == PolicyEntry(subkey, name, Sz(value))

MANAGED_VALUES ==
    << "DefaultSearchProviderEnabled",
       "DefaultSearchProviderName",
       "DefaultSearchProviderSearchURL",
       "DefaultSearchProviderSuggestURL",
       "RestoreOnStartup",
       "ShowHomeButton",
       "FavoritesBarEnabled",
       "HideFirstRunExperience",
       "TrackingPrevention",
       "PasswordManagerEnabled",
       "AutofillCreditCardEnabled",
       "AutofillAddressEnabled" >>

MANAGED_SUBKEYS == << "ExtensionInstallForcelist" >>

EDGE_UPDATE_URL == <<"https://edge.microsoft.com/extensionwebstorebase/v1/crx">>
CHROME_UPDATE_URL == <<"https://clients2.google.com/service/update2/crx">>

Range(s) == {s[i] : i \in DOMAIN s}

\* str::strip_prefix: the rest of text after prefix, or None
strip_prefix(text, prefix) ==
    IF Len(text) >= Len(prefix) /\ SubSeq(text, 1, Len(prefix)) = prefix
    THEN Some(SubSeq(text, Len(prefix) + 1, Len(text)))
    ELSE None

resolve_extension(spec) ==
    LET e == strip_prefix(spec, <<"edge", ":">>)
        c == strip_prefix(spec, <<"chrome", ":">>)
    IN  IF e # None THEN e[1] \o <<";">> \o EDGE_UPDATE_URL
        ELSE IF c # None THEN c[1] \o <<";">> \o CHROME_UPDATE_URL
        ELSE spec \o <<";">> \o EDGE_UPDATE_URL

\* toml::Value::as_str: Some for a string value, None for every other kind
as_str(val) == IF val[1] = "String" THEN Some(val[2]) ELSE None

\* bool as u32
as_u32(b) == IF b THEN 1 ELSE 0

\* a naming that gives every list entry the first number
ExtName_first(i) == ToString(1)

\* (i + 1).to_string() for the 0-based enumerate index i
ExtName(i) == ToString(i + 1)

\* a search section that writes an empty text for a field that is absent
SearchEntries_writes_absent(c) ==
    IF c.search = None THEN <<>>
    ELSE LET search == c.search[1]
             text(o) == IF o # None THEN o[1] ELSE <<>>
         IN  <<dword("", "DefaultSearchProviderEnabled", 1),
               sz("", "DefaultSearchProviderName", text(search.provider)),
               sz("", "DefaultSearchProviderSearchURL", text(search.search_url)),
               sz("", "DefaultSearchProviderSuggestURL", text(search.suggest_url))>>

\* policy.rs 63-75
SearchEntries(c) ==
    IF c.search = None THEN <<>>
    ELSE LET search == c.search[1] IN
         <<dword("", "DefaultSearchProviderEnabled", 1)>>
         \o (IF search.provider # None
             THEN <<sz("", "DefaultSearchProviderName", search.provider[1])>> ELSE <<>>)
         \o (IF search.search_url # None
             THEN <<sz("", "DefaultSearchProviderSearchURL", search.search_url[1])>> ELSE <<>>)
         \o (IF search.suggest_url # None
             THEN <<sz("", "DefaultSearchProviderSuggestURL", search.suggest_url[1])>> ELSE <<>>)

\* policy.rs 77-88: exts.iter().enumerate(), one entry per string value
ExtensionEntries(c) ==
    IF c.extensions = None THEN <<>>
    ELSE LET exts == c.extensions[1]
             Upto[n \in 0..Len(exts)] ==
                 IF n = 0 THEN <<>>
                 ELSE LET i == n - 1
                          val == exts[n]
                      IN  Upto[n - 1] \o
                          (IF as_str(val) # None
                           THEN <<sz("ExtensionInstallForcelist", ExtName(i),
                                     resolve_extension(as_str(val)[1]))>>
                           ELSE <<>>)
         IN  Upto[Len(exts)]

\* policy.rs 92-97
RestoreOnStartupCode(mode) ==
    CASE mode = "new_tab" -> 5
      [] mode = "previous_session" -> 1
      [] mode = "urls" -> 4
      [] OTHER -> 5

\* a mapping that turns tracking prevention off for a level it does not know
TrackingPreventionCode_unknown_off(level) ==
    CASE level = "off" -> 0
      [] level = "basic" -> 1
      [] level = "balanced" -> 2
      [] level = "strict" -> 3
      [] OTHER -> 0

\* policy.rs 113-119
TrackingPreventionCode(level) ==
    CASE level = "off" -> 0
      [] level = "basic" -> 1
      [] level = "balanced" -> 2
      [] level = "strict" -> 3
      [] OTHER -> 2

\* policy.rs 90-109
BrowserEntries(c) ==
    IF c.browser = None THEN <<>>
    ELSE LET browser == c.browser[1] IN
         (IF browser.restore_on_startup # None
          THEN <<dword("", "RestoreOnStartup",
                       RestoreOnStartupCode(browser.restore_on_startup[1]))>> ELSE <<>>)
         \o (IF browser.show_home_button # None
             THEN <<dword("", "ShowHomeButton", as_u32(browser.show_home_button[1]))>> ELSE <<>>)
         \o (IF browser.favorites_bar # None
             THEN <<dword("", "FavoritesBarEnabled", as_u32(browser.favorites_bar[1]))>> ELSE <<>>)
         \o (IF browser.hide_first_run # None
             THEN <<dword("", "HideFirstRunExperience", as_u32(browser.hide_first_run[1]))>> ELSE <<>>)

\* policy.rs 111-131
PrivacyEntries(c) ==
    IF c.privacy = None THEN <<>>
    ELSE LET privacy == c.privacy[1] IN
         (IF privacy.tracking_prevention # None
          THEN <<dword("", "TrackingPrevention",
                       TrackingPreventionCode(privacy.tracking_prevention[1]))>> ELSE <<>>)
         \o (IF privacy.password_manager # None
             THEN <<dword("", "PasswordManagerEnabled", as_u32(privacy.password_manager[1]))>> ELSE <<>>)
         \o (IF privacy.autofill_credit_card # None
             THEN <<dword("", "AutofillCreditCardEnabled", as_u32(privacy.autofill_credit_card[1]))>> ELSE <<>>)
         \o (IF privacy.autofill_address # None
             THEN <<dword("", "AutofillAddressEnabled", as_u32(privacy.autofill_address[1]))>> ELSE <<>>)

build_entries(c) ==
    SearchEntries(c) \o ExtensionEntries(c) \o BrowserEntries(c) \o PrivacyEntries(c)

----------------------------------------------------------------------------
(* The registry (winreg calls used by registry.rs) *)

EDGE_POLICY_PATH == "SOFTWARE\\Policies\\Microsoft\\Edge"

EmptyKey == [n \in {} |-> <<>>]
AbsentKey == [present |-> FALSE, values |-> EmptyKey, subkeys |-> EmptyKey]
NewKey == [present |-> TRUE, values |-> EmptyKey, subkeys |-> EmptyKey]

With(f, n, v) == [k \in DOMAIN f \cup {n} |-> IF k = n THEN v ELSE f[k]]
Without(f, n) == [k \in DOMAIN f \ {n} |-> f[k]]

\* Every call below yields [ok, store]: whether the store accepted it, and the
\* store after it.

\* RegKey::create_subkey(EDGE_POLICY_PATH [\ subkey]): opens the key, creating
\* the missing keys of the path
create_subkey(s, subkey) ==
    LET base == IF s.present THEN s ELSE NewKey IN
    [ok |-> TRUE,
     store |-> IF subkey = "" \/ subkey \in DOMAIN base.subkeys THEN base
               ELSE [base EXCEPT !.subkeys = With(@, subkey, EmptyKey)]]

\* RegKey::delete_subkey_all(subkey) on the root key: the child and all below it
delete_subkey_all(s, subkey) ==
    IF s.present /\ subkey \in DOMAIN s.subkeys
    THEN [ok |-> TRUE, store |-> [s EXCEPT !.subkeys = Without(@, subkey)]]
    ELSE [ok |-> FALSE, store |-> s]

\* a set_value that appends to the text a root value holds instead of replacing it
set_value_append(s, subkey, name, v) ==
    IF subkey = ""
    THEN IF s.present
         THEN [ok |-> TRUE,
               store |-> [s EXCEPT !.values =
                   With(@, name,
                        IF name \in DOMAIN @ /\ @[name][1] = "REG_SZ" /\ v[1] = "REG_SZ"
                        THEN Sz(@[name][2] \o v[2]) ELSE v)]]
         ELSE [ok |-> FALSE, store |-> s]
    ELSE IF s.present /\ subkey \in DOMAIN s.subkeys
         THEN [ok |-> TRUE,
               store |-> [s EXCEPT !.subkeys[subkey] = With(@, name, v)]]
         ELSE [ok |-> FALSE, store |-> s]

\* RegKey::set_value(name, v) on the root key (subkey = "") or on a child
set_value(s, subkey, name, v) ==
    IF subkey = ""
    THEN IF s.present
         THEN [ok |-> TRUE, store |-> [s EXCEPT !.values = With(@, name, v)]]
         ELSE [ok |-> FALSE, store |-> s]
    ELSE IF s.present /\ subkey \in DOMAIN s.subkeys
         THEN [ok |-> TRUE,
               store |-> [s EXCEPT !.subkeys[subkey] = With(@, name, v)]]
         ELSE [ok |-> FALSE, store |-> s]

\* RegKey::delete_value(name) on the root key
delete_value(s, name) ==
    IF s.present /\ name \in DOMAIN s.values
    THEN [ok |-> TRUE, store |-> [s EXCEPT !.values = Without(@, name)]]
    ELSE [ok |-> FALSE, store |-> s]

\* RegKey::delete_subkey(EDGE_POLICY_PATH): only a key without children
delete_subkey(s) ==
    IF s.present /\ DOMAIN s.subkeys = {}
    THEN [ok |-> TRUE, store |-> AbsentKey]
    ELSE [ok |-> FALSE, store |-> s]

\* RegKey::open_subkey_with_flags(EDGE_POLICY_PATH, KEY_ALL_ACCESS)
open_subkey(s) == [ok |-> s.present, store |-> s]

\* A logged call: status is "ok", "absent" (the call failed because its target
\* does not exist) or "refused" (the store refused it: access denied, a key
\* changed by another process)
Call(op, subkey, name, status) ==
    [op |-> op, subkey |-> subkey, name |-> name, status |-> status]

\* One call of an invocation whose state so far is r = [store, log, ...]; F is
\* the set of call positions of this invocation that the store refuses. A
\* refused call returns Err and changes nothing.
Refused(r, F) == (Len(r.log) + 1) \in F

Do(r, F, op, subkey, name, out) ==
    IF Refused(r, F)
    THEN [r EXCEPT !.log = Append(@, Call(op, subkey, name, "refused"))]
    ELSE [r EXCEPT !.store = out.store,
                   !.log = Append(@, Call(op, subkey, name,
                                          IF out.ok THEN "ok" ELSE "absent"))]

\* the Result of the call just made is Ok
LastOk(r) == r.log[Len(r.log)].status = "ok"

----------------------------------------------------------------------------
(* registry.rs: apply *)

Ok == <<"ok">>
Running == <<>>

\* a reset that also drops every managed root value, as it drops the lists
ApplyDeleteLists_and_values(r, F) ==
    LET Upto[n \in 0..Len(MANAGED_SUBKEYS)] ==
            IF n = 0 THEN r
            ELSE LET subkey_name == MANAGED_SUBKEYS[n]
                     p == Upto[n - 1]
                 IN  Do(p, F, "delete_subkey_all", subkey_name, "",
                        delete_subkey_all(p.store, subkey_name))
        d == Upto[Len(MANAGED_SUBKEYS)]
    IN  [d EXCEPT !.store.values =
            [k \in DOMAIN @ \ Range(MANAGED_VALUES) |-> @[k]]]

\* registry.rs 16-18: the result of delete_subkey_all is discarded
ApplyDeleteLists(r, F) ==
    LET Upto[n \in 0..Len(MANAGED_SUBKEYS)] ==
            IF n = 0 THEN r
            ELSE LET subkey_name == MANAGED_SUBKEYS[n]
                     p == Upto[n - 1]
                 IN  Do(p, F, "delete_subkey_all", subkey_name, "",
                        delete_subkey_all(p.store, subkey_name))
    IN  Upto[Len(MANAGED_SUBKEYS)]

\* registry.rs 30-37
ApplySetValue(r, F, entry) ==
    LET w == Do(r, F, "set_value", entry.subkey, entry.name,
                set_value(r.store, entry.subkey, entry.name, entry.value))
    IN  IF LastOk(w) THEN w
        ELSE [w EXCEPT !.result =
                 <<IF entry.value[1] = "REG_DWORD" THEN "Failed to set DWORD: "
                   ELSE "Failed to set SZ: ", entry.name>>]

\* registry.rs 20-38: one iteration of the loop over the entries
ApplyEntry(r, F, entry) ==
    IF entry.subkey = ""
    THEN ApplySetValue(r, F, entry)
    ELSE LET k == Do(r, F, "create_subkey", entry.subkey, "",
                     create_subkey(r.store, entry.subkey))
         IN  IF LastOk(k) THEN ApplySetValue(k, F, entry)
             ELSE [k EXCEPT !.result = <<"Failed to create subkey: ", entry.subkey>>]

\* an apply that goes on with the next entry after a failure and returns the
\* first error at the end
apply_keeps_going(s, batch, F) ==
    LET r0 == [store |-> s, log |-> <<>>, result |-> Running]
        base == Do(r0, F, "create_subkey", "", "", create_subkey(s, ""))
        Upto[n \in 0..Len(batch)] ==
            IF n = 0 THEN ApplyDeleteLists(base, F)
            ELSE LET p == Upto[n - 1]
                     q == ApplyEntry(p, F, batch[n])
                 IN  IF p.result # Running THEN [q EXCEPT !.result = p.result] ELSE q
        done == Upto[Len(batch)]
    IN  IF ~LastOk(base)
        THEN [base EXCEPT !.result = <<"Failed to open/create Edge policy key">>]
        ELSE IF done.result # Running THEN done
        ELSE [done EXCEPT !.result = Ok]

\* registry.rs 9-41: [store, log, result] of apply(batch) run on store s
apply(s, batch, F) ==
    LET r0 == [store |-> s, log |-> <<>>, result |-> Running]
        base == Do(r0, F, "create_subkey", "", "", create_subkey(s, ""))
        Upto[n \in 0..Len(batch)] ==
            IF n = 0 THEN ApplyDeleteLists(base, F)
            ELSE LET p == Upto[n - 1]
                 IN  IF p.result # Running THEN p ELSE ApplyEntry(p, F, batch[n])
        done == Upto[Len(batch)]
    IN  IF ~LastOk(base)
        THEN [base EXCEPT !.result = <<"Failed to open/create Edge policy key">>]
        ELSE IF done.result # Running THEN done
        ELSE [done EXCEPT !.result = Ok]

----------------------------------------------------------------------------
(* registry.rs: clean *)

\* registry.rs 98-104: a line is printed when delete_value returns Ok
CleanValues(r, F) ==
    LET Upto[n \in 0..Len(MANAGED_VALUES)] ==
            IF n = 0 THEN r
            ELSE LET name == MANAGED_VALUES[n]
                     p == Upto[n - 1]
                     d == Do(p, F, "delete_value", "", name, delete_value(p.store, name))
                 IN  IF LastOk(d)
                     THEN [d EXCEPT !.out = Append(@, <<"  Removed ", name>>)]
                     ELSE d
    IN  Upto[Len(MANAGED_VALUES)]

\* registry.rs 106-112
CleanSubkeys(r, F) ==
    LET Upto[n \in 0..Len(MANAGED_SUBKEYS)] ==
            IF n = 0 THEN r
            ELSE LET subkey_name == MANAGED_SUBKEYS[n]
                     p == Upto[n - 1]
                     d == Do(p, F, "delete_subkey_all", subkey_name, "",
                             delete_subkey_all(p.store, subkey_name))
                 IN  IF LastOk(d)
                     THEN [d EXCEPT !.out = Append(@, <<"  Removed subkey ", subkey_name>>)]
                     ELSE d
    IN  Upto[Len(MANAGED_SUBKEYS)]

\* a clean that looks only for children before it deletes the root key
CleanRoot_ignores_values(r, F) ==
    LET has_subkeys == DOMAIN r.store.subkeys # {}
    IN  IF ~has_subkeys
        THEN [Do(r, F, "delete_subkey", "", "", delete_subkey(r.store))
                EXCEPT !.out = Append(@, <<"  Removed empty Edge policy key">>)]
        ELSE r

\* registry.rs 114-122: the result of delete_subkey is discarded, the line is
\* printed in either case
CleanRoot(r, F) ==
    LET has_values == DOMAIN r.store.values # {}
        has_subkeys == DOMAIN r.store.subkeys # {}
    IN  IF ~has_values /\ ~has_subkeys
        THEN [Do(r, F, "delete_subkey", "", "", delete_subkey(r.store))
                EXCEPT !.out = Append(@, <<"  Removed empty Edge policy key">>)]
        ELSE r

\* registry.rs 87-125: [store, log, out, result] of clean() run on store s
clean(s, F) ==
    LET r0 == [store |-> s, log |-> <<>>, out |-> <<>>, result |-> Running]
        base == Do(r0, F, "open_subkey", "", "", open_subkey(s))
    IN  IF ~LastOk(base)
        THEN [base EXCEPT !.out = <<<<"No HKCU Edge policies found, nothing to clean.">>>>,
                          !.result = Ok]
        ELSE [CleanRoot(CleanSubkeys(CleanValues(base, F), F), F) EXCEPT !.result = Ok]

----------------------------------------------------------------------------
(* registry.rs: check_hklm_conflicts *)

\* base.get_value::<String>(name): a value of a text type
get_value_String(h, name) ==
    name \in DOMAIN h.values
    /\ h.values[name][1] \in {"REG_SZ", "REG_EXPAND_SZ", "REG_MULTI_SZ"}

\* a probe that never finds an integer
get_value_u32_never(h, name) == FALSE

\* base.get_value::<u32>(name): a value of type REG_DWORD
get_value_u32(h, name) ==
    name \in DOMAIN h.values /\ h.values[name][1] = "REG_DWORD"

\* registry.rs 128-153: the lines written to stderr
check_hklm_conflicts(h, batch) ==
    LET Upto[n \in 0..Len(batch)] ==
            IF n = 0 THEN [warned |-> FALSE, err |-> <<>>]
            ELSE LET entry == batch[n]
                     p == Upto[n - 1]
                     exists == get_value_String(h, entry.name)
                     exists_dword == get_value_u32(h, entry.name)
                 IN  IF entry.subkey # "" THEN p
                     ELSE IF exists \/ exists_dword
                     THEN [warned |-> TRUE,
                           err |-> (IF ~p.warned
                                    THEN Append(p.err, <<"Warning: The following HKLM policies overlap (HKLM takes precedence):">>)
                                    ELSE p.err) \o << <<"  HKLM: ", entry.name>> >>]
                     ELSE p
        done == Upto[Len(batch)]
    IN  IF ~h.present THEN <<>>
        ELSE IF done.warned THEN Append(done.err, <<"">>)
        ELSE done.err

----------------------------------------------------------------------------
(* Inputs *)

SeqsUpTo(S, n) == UNION {[1..k -> S] : k \in 0..n}
Option(S) == {None} \cup {Some(x) : x \in S}

\* the sets of at most MaxFaults call positions among the first n calls
FaultSets(n) ==
    LET K[k \in 0..MaxFaults] ==
            IF k = 0 THEN {{}}
            ELSE K[k - 1] \cup {S \cup {x} : S \in K[k - 1], x \in 1..n}
    IN  K[MaxFaults]

NoFaults == {}

\* values of an extensions mapping: an extension spec and a value that is no string
ExtensionValues ==
    { <<"String", <<"edge", ":", "A">>>>, <<"Integer", <<"7">>>> }

\* no apply invocations in flight
NoRace == <<>>

NoConfig == [search |-> None, extensions |-> None, browser |-> None, privacy |-> None]

SearchOf(provider) == [provider |-> provider, search_url |-> None, suggest_url |-> None]

\* the configurations that apply invocations are run with
ApplyConfigs ==
    [search : Option({SearchOf(Some(<<"Bing">>))}),
     extensions : Option(SeqsUpTo(ExtensionValues, MaxExts)),
     browser : {None},
     privacy : {None}]

ApplyBatches == {build_entries(c) : c \in ApplyConfigs}

\* upper bound of the store calls of apply(batch)
ApplyCalls(batch) == 1 + Len(MANAGED_SUBKEYS) + 2 * Len(batch)
CleanCalls == 1 + Len(MANAGED_VALUES) + Len(MANAGED_SUBKEYS) + 1

\* The root key as other tools may have left it: a value and a child that are
\* not managed, a managed value name holding another tool's data, and an
\* extension list with an entry numbered by another tool.
OtherToolsValues ==
    [n \in {"HomepageLocation", "DefaultSearchProviderName"} |->
        IF n = "HomepageLocation" THEN Sz(<<"https://example.org">>) ELSE Sz(<<"Contoso">>)]
OtherToolsSubkeys ==
    [n \in {"URLBlocklist", "ExtensionInstallForcelist"} |->
        IF n = "URLBlocklist" THEN [m \in {"1"} |-> Sz(<<"example.com">>)]
        ELSE [m \in {"9"} |-> Sz(<<"Z", ";">> \o EDGE_UPDATE_URL)]]

Restrict(f, D) == [k \in D |-> f[k]]

InitStores ==
    { AbsentKey,
      [present |-> TRUE,
       values |-> OtherToolsValues,
       subkeys |-> Restrict(OtherToolsSubkeys, {"ExtensionInstallForcelist"})],
      [present |-> TRUE,
       values |-> EmptyKey,
       subkeys |-> Restrict(OtherToolsSubkeys, {"URLBlocklist"})] }

\* HKLM policies that shadow the provider name
HklmPolicies ==
    [NewKey EXCEPT !.values =
        [n \in {"DefaultSearchProviderName", "1"} |-> Sz(<<"Contoso">>)]]

HklmStores == {AbsentKey, HklmPolicies}

----------------------------------------------------------------------------
(* main.rs *)

Init ==
    /\ store \in InitStores
    /\ hklm \in HklmStores
    /\ cfg = NoConfig
    /\ entries = <<>>
    /\ cmd = "none"
    /\ pre = store
    /\ result = Ok
    /\ log = <<>>
    /\ report = <<>>
    /\ warned = <<>>
    /\ calls = <<>>
    /\ race = NoRace

\* config.rs 40, 43-47: the errors of config::load
ConfigErrors ==
    {"Cannot determine home directory", "Failed to read config: ", "Failed to parse config: "}

\* a main that opens the policy key before it loads the configuration
ApplyConfigError_after_open ==
    \E err \in ConfigErrors :
        LET r == Do([store |-> store, log |-> <<>>, result |-> Running], NoFaults,
                    "create_subkey", "", "", create_subkey(store, "")) IN
        /\ cmd' = "apply"
        /\ result' = <<err>>
        /\ store' = r.store
        /\ log' = r.log
        /\ pre' = store
        /\ entries' = <<>>
        /\ report' = <<>>
        /\ warned' = <<>>
        /\ calls' = <<"config::load">>
        /\ UNCHANGED <<hklm, cfg, race>>

\* main.rs 44: config::load fails, main returns its error
ApplyConfigError ==
    \E err \in ConfigErrors :
        /\ cmd' = "apply"
        /\ result' = <<err>>
        /\ pre' = store
        /\ entries' = <<>>
        /\ log' = <<>>
        /\ report' = <<>>
        /\ warned' = <<>>
        /\ calls' = <<"config::load">>
        /\ UNCHANGED <<store, hklm, cfg, race>>

\* a main that does not look at the dry_run flag
ApplyDryRun_writes ==
    \E batch \in ApplyBatches :
        LET r == apply(store, batch, NoFaults) IN
        /\ cmd' = "apply --dry-run"
        /\ entries' = batch
        /\ warned' = check_hklm_conflicts(hklm, batch)
        /\ store' = r.store
        /\ log' = r.log
        /\ result' = r.result
        /\ pre' = store
        /\ report' = <<>>
        /\ calls' = <<"config::load", "policy::build_entries",
                      "registry::check_hklm_conflicts", "registry::apply">>
        /\ UNCHANGED <<hklm, cfg, race>>

\* main.rs 47-52: apply --dry-run
ApplyDryRun ==
    \E batch \in ApplyBatches :
        /\ cmd' = "apply --dry-run"
        /\ entries' = batch
        /\ result' = Ok
        /\ pre' = store
        /\ log' = <<>>
        /\ report' = <<>>
        /\ warned' = <<>>
        /\ calls' = <<"config::load", "policy::build_entries">>
        /\ UNCHANGED <<store, hklm, cfg, race>>

\* a main that gives up with an error when the precedence check reported an
\* overlap
Apply_stops_on_overlap ==
    \E batch \in ApplyBatches :
        \E F \in FaultSets(ApplyCalls(batch)) :
            LET r == apply(store, batch, F)
                w == check_hklm_conflicts(hklm, batch) IN
            /\ cmd' = "apply"
            /\ entries' = batch
            /\ warned' = w
            /\ IF w = <<>>
               THEN /\ store' = r.store
                    /\ log' = r.log
                    /\ result' = r.result
                    /\ calls' = <<"config::load", "policy::build_entries",
                                  "registry::check_hklm_conflicts", "registry::apply">>
               ELSE /\ store' = store
                    /\ log' = <<>>
                    /\ result' = <<"HKLM policies overlap">>
                    /\ calls' = <<"config::load", "policy::build_entries",
                                  "registry::check_hklm_conflicts">>
            /\ pre' = store
            /\ report' = <<>>
            /\ UNCHANGED <<hklm, cfg, race>>

\* main.rs 53-57: apply
Apply ==
    \E batch \in ApplyBatches :
        \E F \in FaultSets(ApplyCalls(batch)) :
            LET r == apply(store, batch, F) IN
            /\ cmd' = "apply"
            /\ entries' = batch
            /\ warned' = check_hklm_conflicts(hklm, batch)
            /\ store' = r.store
            /\ log' = r.log
            /\ result' = r.result
            /\ pre' = store
            /\ report' = <<>>
            /\ calls' = <<"config::load", "policy::build_entries",
                          "registry::check_hklm_conflicts", "registry::apply">>
            /\ UNCHANGED <<hklm, cfg, race>>

\* main.rs 62-74: clean, confirmed by -y or by the answer y
Clean ==
    \E F \in FaultSets(CleanCalls) :
        LET r == clean(store, F) IN
        /\ cmd' = "clean"
        /\ store' = r.store
        /\ log' = r.log
        /\ result' = r.result
        /\ report' = r.out
        /\ pre' = store
        /\ entries' = <<>>
        /\ warned' = <<>>
        /\ calls' = <<"registry::clean">>
        /\ UNCHANGED <<hklm, cfg, race>>

\* main.rs 63-70: clean, not confirmed
CleanAborted ==
    /\ cmd' = "clean"
    /\ result' = Ok
    /\ report' = <<<<"Aborted.">>>>
    /\ log' = <<>>
    /\ pre' = store
    /\ entries' = <<>>
    /\ warned' = <<>>
    /\ calls' = <<>>
    /\ UNCHANGED <<store, hklm, cfg, race>>

Next == ApplyConfigError \/ ApplyDryRun \/ Apply \/ Clean \/ CleanAborted

Spec == Init /\ [][Next]_vars

----------------------------------------------------------------------------
(* build_entries on its own: the configuration is the input *)

SearchConfigs ==
    [provider : Option({<<"Bing">>}),
     search_url : Option({<<"https://www.bing.com/search?q={searchTerms}">>}),
     suggest_url : Option({<<"https://www.bing.com/osjson.aspx?query={searchTerms}">>})]

BrowserConfigs ==
    [restore_on_startup : Option({"new_tab", "previous_session", "urls", "fullscreen"}),
     show_home_button : Option(BOOLEAN),
     favorites_bar : Option(BOOLEAN),
     hide_first_run : Option(BOOLEAN)]

PrivacyConfigs ==
    [tracking_prevention : Option({"off", "basic", "balanced", "strict", "paranoid"}),
     password_manager : Option(BOOLEAN),
     autofill_credit_card : Option(BOOLEAN),
     autofill_address : Option(BOOLEAN)]

BuildExtensionValues ==
    ExtensionValues \cup
    { <<"String", <<"chrome", ":", "B">>>>, <<"String", <<"C">>>> }

ExtensionMaps == SeqsUpTo(BuildExtensionValues, MaxExts)

\* one section of each kind, to stand beside the section that varies
SomeSearch == SearchOf(Some(<<"Bing">>))
SomeExtensions == << <<"String", <<"edge", ":", "A">>>> >>
SomeBrowser ==
    [restore_on_startup |-> Some("urls"), show_home_button |-> Some(TRUE),
     favorites_bar |-> None, hide_first_run |-> None]
SomePrivacy ==
    [tracking_prevention |-> Some("strict"), password_manager |-> Some(FALSE),
     autofill_credit_card |-> None, autofill_address |-> None]

\* every content of one section, with each other section absent or present
BuildConfigs ==
    [search : Option(SearchConfigs), extensions : Option({SomeExtensions}),
     browser : Option({SomeBrowser}), privacy : Option({SomePrivacy})]
    \cup
    [search : Option({SomeSearch}), extensions : Option(ExtensionMaps),
     browser : Option({SomeBrowser}), privacy : Option({SomePrivacy})]
    \cup
    [search : Option({SomeSearch}), extensions : Option({SomeExtensions}),
     browser : Option(BrowserConfigs), privacy : Option({SomePrivacy})]
    \cup
    [search : Option({SomeSearch}), extensions : Option({SomeExtensions}),
     browser : Option({SomeBrowser}), privacy : Option(PrivacyConfigs)]

InitBuild ==
    /\ cfg \in BuildConfigs
    /\ store = AbsentKey
    /\ hklm = AbsentKey
    /\ entries = <<>>
    /\ cmd = "none"
    /\ pre = store
    /\ result = Ok
    /\ log = <<>>
    /\ report = <<>>
    /\ warned = <<>>
    /\ calls = <<>>
    /\ race = NoRace

\* main.rs 45: policy::build_entries(&cfg)
Build ==
    /\ cmd = "none"
    /\ cmd' = "build"
    /\ entries' = build_entries(cfg)
    /\ UNCHANGED <<store, hklm, cfg, pre, result, log, report, warned, calls, race>>

NextBuild == Build

SpecBuild == InitBuild /\ [][NextBuild]_vars

----------------------------------------------------------------------------
(* check_hklm_conflicts on its own: the HKLM key and the batch are the inputs *)

HklmTypes == {"REG_DWORD", "REG_SZ", "REG_EXPAND_SZ", "REG_BINARY"}

HklmData(type) == IF type = "REG_DWORD" THEN 1 ELSE <<"Contoso">>

\* names of values of the HKLM key: two that batches write at root level, one
\* that batches write in the extension list, one that no batch writes
HklmNames == {"DefaultSearchProviderEnabled", "DefaultSearchProviderName", "1", "HomepageLocation"}

CheckHklmStores ==
    {AbsentKey} \cup
    {[NewKey EXCEPT !.values = [n \in D |-> <<t[n], HklmData(t[n])>>]] :
        D \in SUBSET HklmNames, t \in [HklmNames -> HklmTypes]}

InitCheck ==
    /\ hklm \in CheckHklmStores
    /\ store = AbsentKey
    /\ cfg = NoConfig
    /\ entries = <<>>
    /\ cmd = "none"
    /\ pre = store
    /\ result = Ok
    /\ log = <<>>
    /\ report = <<>>
    /\ warned = <<>>
    /\ calls = <<>>
    /\ race = NoRace

\* main.rs 54: registry::check_hklm_conflicts(&entries)
Check ==
    /\ cmd = "none"
    /\ \E batch \in ApplyBatches :
        /\ entries' = batch
        /\ warned' = check_hklm_conflicts(hklm, batch)
    /\ cmd' = "check"
    /\ UNCHANGED <<store, hklm, cfg, pre, result, log, report, calls, race>>

NextCheck == Check

SpecCheck == InitCheck /\ [][NextCheck]_vars

----------------------------------------------------------------------------
(* Two apply invocations at the same time: every store call is one step *)

Instances == {1, 2}

\* what tells the configurations of the two invocations apart
RaceProvider == << <<"Bing">>, <<"Contoso">> >>
RaceExtension == << <<"String", <<"edge", ":", "A">>>>, <<"String", <<"chrome", ":", "B">>>> >>

RaceConfigs(p) ==
    [search : Option({SearchOf(Some(RaceProvider[p]))}),
     extensions : Option(SeqsUpTo({RaceExtension[p]}, MaxExts)),
     browser : {None},
     privacy : {None}]

RaceBatches(p) == {build_entries(c) : c \in RaceConfigs(p)}

\* the place of an invocation in registry::apply: the store call it makes next
At(at, n) == [at |-> at, n |-> n]

\* registry.rs 20-28: the first store call for entry n of the batch
AtEntry(batch, n) ==
    IF n > Len(batch) THEN At("done", 0)
    ELSE IF batch[n].subkey = "" THEN At("set", n)
    ELSE At("create", n)

\* the invocation goes on at place next; registry.rs 40 when that is the end
Advance(me, next) ==
    [me EXCEPT !.pc = next, !.stale = FALSE,
               !.result = IF next.at = "done" THEN Ok ELSE Running]

\* the invocation returns err (the ? of registry.rs 13, 26, 33, 36)
Fail(me, err) == [me EXCEPT !.pc = At("done", 0), !.result = err]

\* the shared store and the calls made on it so far
RaceRun == [store |-> store, log |-> log, result |-> Running]

InitRace ==
    /\ store \in InitStores
    /\ race \in {[inst |-> [p \in Instances |->
                               [entries |-> b[p], pc |-> At("open", 0),
                                stale |-> FALSE, result |-> Running]],
                   by |-> <<>>] :
                     b \in {f \in [Instances -> UNION {RaceBatches(p) : p \in Instances}] :
                               \A p \in Instances : f[p] \in RaceBatches(p)}}
    /\ hklm = AbsentKey
    /\ cfg = NoConfig
    /\ entries = <<>>
    /\ cmd = "none"
    /\ pre = store
    /\ result = Ok
    /\ log = <<>>
    /\ report = <<>>
    /\ warned = <<>>
    /\ calls = <<>>

\* registry.rs 11-13: create_subkey(EDGE_POLICY_PATH)
RaceOpen(p) ==
    LET me == race.inst[p]
        r == Do(RaceRun, NoFaults, "create_subkey", "", "", create_subkey(store, ""))
    IN  /\ me.pc = At("open", 0)
        /\ store' = r.store
        /\ log' = r.log
        /\ race' = [race EXCEPT
                      !.by = Append(@, p),
                      !.inst[p] = IF LastOk(r) THEN Advance(me, At("delete", 1))
                                  ELSE Fail(me, <<"Failed to open/create Edge policy key">>)]
        /\ UNCHANGED <<hklm, cfg, entries, cmd, pre, result, report, warned, calls>>

\* registry.rs 16-18: delete_subkey_all(subkey_name), its result discarded. The
\* handle that another invocation holds on the deleted key is a handle on a
\* deleted key from now on.
RaceDelete(p) ==
    LET me == race.inst[p]
        subkey_name == MANAGED_SUBKEYS[me.pc.n]
        r == Do(RaceRun, NoFaults, "delete_subkey_all", subkey_name, "",
                delete_subkey_all(store, subkey_name))
        Holds(q) ==
            /\ race.inst[q].pc.at = "set"
            /\ race.inst[q].entries[race.inst[q].pc.n].subkey = subkey_name
    IN  /\ me.pc.at = "delete"
        /\ store' = r.store
        /\ log' = r.log
        /\ race' = [race EXCEPT
                      !.by = Append(@, p),
                      !.inst = [q \in Instances |->
                          IF q = p
                          THEN Advance(me, IF me.pc.n < Len(MANAGED_SUBKEYS)
                                           THEN At("delete", me.pc.n + 1)
                                           ELSE AtEntry(me.entries, 1))
                          ELSE IF LastOk(r) /\ Holds(q)
                          THEN [race.inst[q] EXCEPT !.stale = TRUE]
                          ELSE race.inst[q]]]
        /\ UNCHANGED <<hklm, cfg, entries, cmd, pre, result, report, warned, calls>>

\* registry.rs 24-27: create_subkey(EDGE_POLICY_PATH \ entry.subkey)
RaceCreate(p) ==
    LET me == race.inst[p]
        entry == me.entries[me.pc.n]
        r == Do(RaceRun, NoFaults, "create_subkey", entry.subkey, "",
                create_subkey(store, entry.subkey))
    IN  /\ me.pc.at = "create"
        /\ store' = r.store
        /\ log' = r.log
        /\ race' = [race EXCEPT
                      !.by = Append(@, p),
                      !.inst[p] = IF LastOk(r) THEN Advance(me, At("set", me.pc.n))
                                  ELSE Fail(me, <<"Failed to create subkey: ", entry.subkey>>)]
        /\ UNCHANGED <<hklm, cfg, entries, cmd, pre, result, report, warned, calls>>

\* registry.rs 30-37: key.set_value(entry.name, v); a call on the handle of a
\* deleted key is refused
RaceSet(p) ==
    LET me == race.inst[p]
        entry == me.entries[me.pc.n]
        F == IF me.stale THEN {Len(log) + 1} ELSE NoFaults
        w == ApplySetValue(RaceRun, F, entry)
    IN  /\ me.pc.at = "set"
        /\ store' = w.store
        /\ log' = w.log
        /\ race' = [race EXCEPT
                      !.by = Append(@, p),
                      !.inst[p] = IF w.result = Running
                                  THEN Advance(me, AtEntry(me.entries, me.pc.n + 1))
                                  ELSE Fail(me, w.result)]
        /\ UNCHANGED <<hklm, cfg, entries, cmd, pre, result, report, warned, calls>>

NextRace ==
    \E p \in Instances : RaceOpen(p) \/ RaceDelete(p) \/ RaceCreate(p) \/ RaceSet(p)

SpecRace == InitRace /\ [][NextRace]_vars

----------------------------------------------------------------------------
(* Vocabulary of the properties *)

ListSubkey == "ExtensionInstallForcelist"

IsListEntry(e) == e.subkey = ListSubkey
IsRootEntry(e) == e.subkey = ""

ListEntries(batch) == SelectSeq(batch, IsListEntry)

\* the values of child k of the root key, none when there is no such child
ValuesOf(s, k) == IF s.present /\ k \in DOMAIN s.subkeys THEN s.subkeys[k] ELSE EmptyKey

\* entry e is in the store
Written(s, e) ==
    IF e.subkey = ""
    THEN s.present /\ e.name \in DOMAIN s.values /\ s.values[e.name] = e.value
    ELSE e.name \in DOMAIN ValuesOf(s, e.subkey) /\ ValuesOf(s, e.subkey)[e.name] = e.value

NoRefusal(l) == \A i \in DOMAIN l : l[i].status # "refused"

\* the last invocation ran registry::apply / registry::clean
ApplyRan == cmd = "apply" /\ log # <<>>
CleanRan == cmd = "clean" /\ log # <<>>

ApplyOkNoFault == ApplyRan /\ result = Ok /\ NoRefusal(log)
ApplyAborted == ApplyRan /\ result # Ok

IsRemovedLine(l) ==
    l[1] \in {"  Removed ", "  Removed subkey ", "  Removed empty Edge policy key"}
RemovedLines(out) == SelectSeq(out, IsRemovedLine)

----------------------------------------------------------------------------
(* Properties *)

\* C1: clean leaves every root value whose name is not in MANAGED_VALUES and
\* every child whose name is not in MANAGED_SUBKEYS present with the content it
\* had before the clean.
C1_CleanKeepsForeign ==
    cmd = "clean" =>
        /\ \A n \in DOMAIN pre.values \ Range(MANAGED_VALUES) :
              store.present /\ n \in DOMAIN store.values /\ store.values[n] = pre.values[n]
        /\ \A k \in DOMAIN pre.subkeys \ Range(MANAGED_SUBKEYS) :
              store.present /\ k \in DOMAIN store.subkeys /\ store.subkeys[k] = pre.subkeys[k]

\* a clean that removed a managed value beside a value that is not managed
C1_Witness ==
    /\ CleanRan
    /\ \E n \in DOMAIN pre.values \cap Range(MANAGED_VALUES) :
          ~(store.present /\ n \in DOMAIN store.values)
    /\ DOMAIN pre.values \ Range(MANAGED_VALUES) # {}

\* C2: after an apply that returns success the extension list holds exactly the
\* list entries of the batch, and the list is deleted before any entry is written.
C2_ListFullyReplaced ==
    (ApplyRan /\ result = Ok) =>
        /\ LET list == Range(ListEntries(entries)) IN
           ValuesOf(store, ListSubkey) =
               [n \in {e.name : e \in list} |-> (CHOOSE e \in list : e.name = n).value]
        /\ \A i, j \in DOMAIN log :
              (log[i].op = "delete_subkey_all" /\ log[j].op = "set_value") => i < j

\* C3: a failure-free apply of the batch that the failure-free apply before it
\* applied leaves the store as that one left it.
C3_ApplyIdempotent ==
    [][(ApplyOkNoFault /\ ApplyOkNoFault' /\ entries' = entries) => store' = store]_vars

\* an apply that found its whole batch, root values and list entries, in place
C3_Witness ==
    /\ ApplyOkNoFault
    /\ pre = store
    /\ ListEntries(entries) # <<>>
    /\ \E i \in DOMAIN entries : IsRootEntry(entries[i])

\* C4: a clean that runs right after a clean changes nothing in the store and
\* prints no "Removed" line.
C4_SecondCleanNoOp ==
    [][(CleanRan /\ CleanRan') => (store' = store /\ RemovedLines(report') = <<>>)]_vars

\* C5: the list entries of a built batch are named 1..k in the order of their
\* emission, k the number of string values of the extensions mapping.
C5_ListNamesContiguous ==
    cmd = "build" =>
        LET list == ListEntries(entries)
            exts == IF cfg.extensions = None THEN <<>> ELSE cfg.extensions[1]
        IN  /\ Len(list) = Cardinality({i \in DOMAIN exts : as_str(exts[i]) # None})
            /\ \A j \in DOMAIN list : list[j].name = ToString(j)

\* the position in the batch of the entry that apply was working on when it
\* stopped: one past the entries whose value was set
StoppedAt == 1 + Cardinality({k \in DOMAIN log : log[k].op = "set_value" /\ log[k].status = "ok"})

\* apply stopped because a create_subkey or set_value of an entry failed
EntryFailed ==
    /\ ApplyAborted
    /\ log[Len(log)].op \in {"create_subkey", "set_value"}
    /\ Len(log) > 1 + Len(MANAGED_SUBKEYS)

\* C6: when create_subkey or set_value fails for the entry at position i, apply
\* returns an error that names the container or the value of that entry, has
\* made no set_value call for an entry after i, and every entry before i is in
\* the store.
C6_AbortKeepsPrefix ==
    EntryFailed =>
        LET i == StoppedAt IN
        /\ i \in DOMAIN entries
        /\ result \in { <<"Failed to create subkey: ", entries[i].subkey>>,
                        <<"Failed to set DWORD: ", entries[i].name>>,
                        <<"Failed to set SZ: ", entries[i].name>> }
        /\ \A j \in 1..(i - 1) : Written(store, entries[j])
        /\ \A j \in i..Len(entries) :
              ~\E k \in DOMAIN log :
                  /\ log[k].op = "set_value"
                  /\ log[k].status = "ok"
                  /\ log[k].subkey = entries[j].subkey
                  /\ log[k].name = entries[j].name
        /\ \A j \in (i + 1)..Len(entries) :
              ~\E k \in DOMAIN log :
                  /\ log[k].op = "set_value"
                  /\ log[k].subkey = entries[j].subkey
                  /\ log[k].name = entries[j].name

\* an apply that failed on an entry with an entry before it and one after it
C6_Witness ==
    /\ EntryFailed
    /\ StoppedAt > 1
    /\ StoppedAt < Len(entries)
    /\ store # pre

\* C7: a failure-free apply of batch B that runs after an apply of B that was
\* aborted by a store failure leaves the store as one failure-free apply of B
\* leaves the store in which the aborted apply started.
C7_RerunAfterAbort ==
    [][(ApplyAborted /\ ApplyOkNoFault' /\ entries' = entries)
          => store' = apply(pre, entries, NoFaults).store]_vars

\* an aborted apply that had written part of its batch
C7_Witness ==
    /\ ApplyAborted
    /\ StoppedAt > 1
    /\ store # pre
    /\ store # apply(pre, entries, NoFaults).store

\* C8: once clean has made its delete calls for the managed values and
\* children, the root key is deleted exactly if no value and no child is left;
\* what is left stays in place.
C8_RootDeletedIffEmpty ==
    (CleanRan /\ log[1].status = "ok") =>
        LET deleted(op) == {log[k].name : k \in {m \in DOMAIN log : log[m].op = op /\ log[m].status = "ok"}}
            deletedKeys == {log[k].subkey : k \in {m \in DOMAIN log : log[m].op = "delete_subkey_all" /\ log[m].status = "ok"}}
            leftValues == DOMAIN pre.values \ deleted("delete_value")
            leftSubkeys == DOMAIN pre.subkeys \ deletedKeys
        IN  /\ ~store.present <=> (leftValues = {} /\ leftSubkeys = {})
            /\ (leftValues # {} \/ leftSubkeys # {}) =>
                  store = [present |-> TRUE,
                           values |-> Restrict(pre.values, leftValues),
                           subkeys |-> Restrict(pre.subkeys, leftSubkeys)]

\* C9: clean prints a "Removed" line for a managed value, a managed child or
\* the root key exactly if that item was there before the clean and is not
\* there after it.
C9_ReportIsWhatWasDeleted ==
    CleanRan =>
        /\ \A n \in Range(MANAGED_VALUES) :
              (<<"  Removed ", n>> \in Range(report))
                  <=> (n \in DOMAIN pre.values /\ n \notin DOMAIN store.values)
        /\ \A k \in Range(MANAGED_SUBKEYS) :
              (<<"  Removed subkey ", k>> \in Range(report))
                  <=> (k \in DOMAIN pre.subkeys /\ k \notin DOMAIN store.subkeys)
        /\ (<<"  Removed empty Edge policy key">> \in Range(report))
              <=> (pre.present /\ ~store.present)

IntegerOrTextTypes == {"REG_DWORD", "REG_SZ", "REG_EXPAND_SZ", "REG_MULTI_SZ"}

\* the names that the "HKLM: name" lines of the stderr lines err report
ReportedNames(err) ==
    LET IsHklmLine(l) == Len(l) = 2 /\ l[1] = "  HKLM: "
        lines == SelectSeq(err, IsHklmLine)
    IN  [j \in DOMAIN lines |-> lines[j][2]]

\* the root-level entries of batch of which key h holds an integer or a text
\* of the same name
Overlaps(h, batch) ==
    LET Shadowed(e) ==
            /\ IsRootEntry(e)
            /\ h.present
            /\ e.name \in DOMAIN h.values
            /\ h.values[e.name][1] \in IntegerOrTextTypes
        hit == SelectSeq(batch, Shadowed)
    IN  [j \in DOMAIN hit |-> hit[j].name]

\* C10: the precedence check reports, once each and in batch order, exactly the
\* root-level entries of the batch whose name the HKLM key holds as an integer
\* or as text; list entries are not reported and an absent HKLM key gives no
\* report.
C10_OverlapsReported ==
    cmd = "check" =>
        /\ ReportedNames(warned) = Overlaps(hklm, entries)
        /\ ~hklm.present => warned = <<>>
        /\ \A j \in DOMAIN entries :
              IsListEntry(entries[j]) => entries[j].name \notin Range(ReportedNames(warned))

\* a check that reported an integer and a text, with a list entry whose name
\* HKLM holds too
C10_Witness ==
    /\ cmd = "check"
    /\ Len(ReportedNames(warned)) = 2
    /\ \E n \in Range(ReportedNames(warned)) : hklm.values[n][1] = "REG_DWORD"
    /\ \E n \in Range(ReportedNames(warned)) : hklm.values[n][1] = "REG_EXPAND_SZ"
    /\ \E j \in DOMAIN entries :
          IsListEntry(entries[j]) /\ entries[j].name \in DOMAIN hklm.values

\* position of function f among the calls of the last invocation, 0 if main
\* did not call it
CallIndex(f) ==
    IF \E i \in DOMAIN calls : calls[i] = f
    THEN CHOOSE i \in DOMAIN calls : calls[i] = f
    ELSE 0

\* the last invocation ran the precedence check
CheckRan == cmd = "apply" /\ CallIndex("registry::check_hklm_conflicts") > 0

\* C11: the precedence check is advisory. In an apply invocation that runs it,
\* it is called before registry::apply, which makes all store calls of the
\* invocation; the HKCU store, the call log and the result of the invocation
\* are those of apply run on the store as it was before the invocation; the
\* invocation fails only when a store call of apply fails; an invocation that
\* succeeds has every entry of the batch in the store, overlaps reported or
\* not. No step changes the HKLM store.
C11_CheckAdvisory ==
    /\ [](CheckRan =>
            /\ CallIndex("registry::apply") > CallIndex("registry::check_hklm_conflicts")
            /\ log # <<>>
            /\ \E F \in FaultSets(ApplyCalls(entries)) :
                  apply(pre, entries, F) = [store |-> store, log |-> log, result |-> result]
            /\ result # Ok => log[Len(log)].status # "ok"
            /\ result = Ok => \A j \in DOMAIN entries : Written(store, entries[j]))
    /\ [][hklm' = hklm]_vars

\* an apply that reported an overlap and went on to write a root value and a
\* list entry
C11_Witness ==
    /\ CheckRan
    /\ ReportedNames(warned) # <<>>
    /\ result = Ok
    /\ store # pre
    /\ ListEntries(entries) # <<>>
    /\ \E j \in DOMAIN entries : IsRootEntry(entries[j]) /\ Written(store, entries[j])

\* C12: no two entries of a built batch have the same container and name.
C12_EntriesUnique ==
    cmd = "build" =>
        \A i, j \in DOMAIN entries :
            (entries[i].subkey = entries[j].subkey /\ entries[i].name = entries[j].name)
                => i = j

\* a batch built from all four sections with two list entries
C12_Witness ==
    /\ cmd = "build"
    /\ Len(ListEntries(entries)) >= 2
    /\ cfg.search # None /\ cfg.browser # None /\ cfg.privacy # None
    /\ Len(entries) > Len(ListEntries(entries)) + 2

\* the value name that each optional field of a section is written to
SearchFieldNames ==
    [provider |-> "DefaultSearchProviderName",
     search_url |-> "DefaultSearchProviderSearchURL",
     suggest_url |-> "DefaultSearchProviderSuggestURL"]
BrowserFieldNames ==
    [restore_on_startup |-> "RestoreOnStartup",
     show_home_button |-> "ShowHomeButton",
     favorites_bar |-> "FavoritesBarEnabled",
     hide_first_run |-> "HideFirstRunExperience"]
PrivacyFieldNames ==
    [tracking_prevention |-> "TrackingPrevention",
     password_manager |-> "PasswordManagerEnabled",
     autofill_credit_card |-> "AutofillCreditCardEnabled",
     autofill_address |-> "AutofillAddressEnabled"]

\* the root-level entries of batch that are named name
RootNamed(batch, name) ==
    LET Is(e) == IsRootEntry(e) /\ e.name = name IN SelectSeq(batch, Is)

\* field f of an optional section is absent: the section is, or the field is
FieldAbsent(section, f) == section = None \/ section[1][f] = None

SearchOnly(c) ==
    c.search # None /\ c.extensions = None /\ c.browser = None /\ c.privacy = None

\* C13: the batch built from a configuration with only a search section is one
\* integer entry DefaultSearchProviderEnabled = 1 and one text entry, holding
\* the field's text, for each of provider, search_url and suggest_url that is
\* present, and nothing else; and no batch has an entry for an optional field
\* that is absent, nor for a section that is absent.
C13_SearchOnlyAndNoAbsentField ==
    cmd = "build" =>
        /\ SearchOnly(cfg) =>
              /\ RootNamed(entries, "DefaultSearchProviderEnabled")
                    = << [subkey |-> "", name |-> "DefaultSearchProviderEnabled",
                          value |-> <<"REG_DWORD", 1>>] >>
              /\ \A f \in DOMAIN SearchFieldNames :
                    cfg.search[1][f] # None =>
                        RootNamed(entries, SearchFieldNames[f])
                            = << [subkey |-> "", name |-> SearchFieldNames[f],
                                  value |-> <<"REG_SZ", cfg.search[1][f][1]>>] >>
              /\ Len(entries)
                    = 1 + Cardinality({f \in DOMAIN SearchFieldNames : cfg.search[1][f] # None})
        /\ \A f \in DOMAIN SearchFieldNames :
              FieldAbsent(cfg.search, f) => RootNamed(entries, SearchFieldNames[f]) = <<>>
        /\ \A f \in DOMAIN BrowserFieldNames :
              FieldAbsent(cfg.browser, f) => RootNamed(entries, BrowserFieldNames[f]) = <<>>
        /\ \A f \in DOMAIN PrivacyFieldNames :
              FieldAbsent(cfg.privacy, f) => RootNamed(entries, PrivacyFieldNames[f]) = <<>>
        /\ cfg.search = None => RootNamed(entries, "DefaultSearchProviderEnabled") = <<>>
        /\ cfg.extensions = None => ListEntries(entries) = <<>>

\* a batch built from a search section alone, with a provider and no suggest_url
C13_Witness ==
    /\ cmd = "build"
    /\ SearchOnly(cfg)
    /\ cfg.search[1].provider # None
    /\ cfg.search[1].suggest_url = None
    /\ Len(entries) >= 2

\* the documented codes of the start modes and of the tracking levels, and the
\* code of every other string
StartModeCodes == [new_tab |-> 5, previous_session |-> 1, urls |-> 4]
StartModeCode(s) == IF s \in DOMAIN StartModeCodes THEN StartModeCodes[s] ELSE 5
TrackingLevelCodes == [off |-> 0, basic |-> 1, balanced |-> 2, strict |-> 3]
TrackingLevelCode(s) == IF s \in DOMAIN TrackingLevelCodes THEN TrackingLevelCodes[s] ELSE 2

\* C14: a batch built from a configuration whose start mode is present has
\* exactly one RestoreOnStartup entry, an integer: 5 for new_tab, 1 for
\* previous_session, 4 for urls and 5 for every other string; one whose
\* tracking level is present has exactly one TrackingPrevention entry, an
\* integer: 0 for off, 1 for basic, 2 for balanced, 3 for strict and 2 for
\* every other string.
C14_EnumMappingsTotal ==
    cmd = "build" =>
        /\ ~FieldAbsent(cfg.browser, "restore_on_startup") =>
              RootNamed(entries, "RestoreOnStartup")
                = << [subkey |-> "", name |-> "RestoreOnStartup",
                      value |-> <<"REG_DWORD",
                                  StartModeCode(cfg.browser[1].restore_on_startup[1])>>] >>
        /\ ~FieldAbsent(cfg.privacy, "tracking_prevention") =>
              RootNamed(entries, "TrackingPrevention")
                = << [subkey |-> "", name |-> "TrackingPrevention",
                      value |-> <<"REG_DWORD",
                                  TrackingLevelCode(cfg.privacy[1].tracking_prevention[1])>>] >>

\* a batch built from a tracking level that is not documented, beside a start
\* mode that is
C14_Witness ==
    /\ cmd = "build"
    /\ ~FieldAbsent(cfg.privacy, "tracking_prevention")
    /\ cfg.privacy[1].tracking_prevention[1] \notin DOMAIN TrackingLevelCodes
    /\ ~FieldAbsent(cfg.browser, "restore_on_startup")
    /\ cfg.browser[1].restore_on_startup[1] \in DOMAIN StartModeCodes
    /\ RootNamed(entries, "TrackingPrevention") # <<>>

\* both invocations have returned
RaceDone == \A p \in Instances : race.inst[p].pc.at = "done"

\* the positions in the log of the set_value calls made on value name of
\* container subkey
SetCalls(subkey, name) ==
    {k \in DOMAIN log :
        log[k].op = "set_value" /\ log[k].subkey = subkey /\ log[k].name = name}

Last(S) == CHOOSE k \in S : \A m \in S : m <= k

\* the payload of the set_value call at position k of the log: the value of
\* the entry that its invocation was writing
Payload(k) ==
    LET batch == race.inst[race.by[k]].entries
        e == CHOOSE e \in Range(batch) : e.subkey = log[k].subkey /\ e.name = log[k].name
    IN  e.value

\* C15: when two apply invocations whose store calls interleave have both
\* returned, both have returned success, and every value of the store on which
\* a set_value call was made holds the payload of the last of these calls.
C15_LastWriteWins ==
    RaceDone =>
        /\ \A p \in Instances : race.inst[p].result = Ok
        /\ \A n \in DOMAIN store.values :
              SetCalls("", n) # {} => store.values[n] = Payload(Last(SetCalls("", n)))
        /\ \A k \in DOMAIN store.subkeys : \A n \in DOMAIN store.subkeys[k] :
              SetCalls(k, n) # {} => store.subkeys[k][n] = Payload(Last(SetCalls(k, n)))

\* the last invocation was an apply whose configuration could not be loaded
ConfigFailed == cmd = "apply" /\ result # Ok /\ result[1] \in ConfigErrors

\* C16: an apply invocation whose configuration cannot be read or parsed calls
\* neither the precedence check nor registry::apply, makes no store call,
\* prints no precedence warning and leaves the store as it was.
C16_ConfigErrorBeforeStore ==
    ConfigFailed =>
        /\ CallIndex("registry::check_hklm_conflicts") = 0
        /\ CallIndex("registry::apply") = 0
        /\ log = <<>>
        /\ warned = <<>>
        /\ store = pre

\* a configuration that does not parse, met with policies in the store
C16_Witness ==
    /\ ConfigFailed
    /\ result[1] = "Failed to parse config: "
    /\ store.present
    /\ DOMAIN store.values # {}

DryRan == cmd = "apply --dry-run"

\* C17: an apply invocation with the dry-run flag calls neither the precedence
\* check nor registry::apply, makes no store call, prints no precedence
\* warning, succeeds, and leaves the store as it was.
C17_DryRunWritesNothing ==
    DryRan =>
        /\ CallIndex("registry::check_hklm_conflicts") = 0
        /\ CallIndex("registry::apply") = 0
        /\ log = <<>>
        /\ warned = <<>>
        /\ result = Ok
        /\ store = pre

\* a dry run of a batch that an apply would have written into the store, and
\* whose overlap with HKLM the precedence check would have reported
C17_Witness ==
    /\ DryRan
    /\ ListEntries(entries) # <<>>
    /\ apply(pre, entries, NoFaults).store # pre
    /\ check_hklm_conflicts(hklm, entries) # <<>>

\* entry e is written to a managed root value or into a managed container
TargetsManaged(e) ==
    \/ e.subkey = "" /\ e.name \in Range(MANAGED_VALUES)
    \/ e.subkey \in Range(MANAGED_SUBKEYS)

\* store s holds no managed value and no managed container
NoManagedItem(s) ==
    /\ DOMAIN s.values \cap Range(MANAGED_VALUES) = {}
    /\ DOMAIN s.subkeys \cap Range(MANAGED_SUBKEYS) = {}

\* the root key is absent, or present with something foreign and nothing managed
ForeignOnly(s) ==
    \/ ~s.present
    \/ /\ s.present
       /\ NoManagedItem(s)
       /\ DOMAIN s.values # {} \/ DOMAIN s.subkeys # {}

\* C18: every entry of an applied batch targets a managed root value or a
\* managed container; and a clean that runs right after a failure-free apply
\* which started from a store with an absent root key, or with a root key that
\* held something foreign and nothing managed, leaves the store as it was
\* before that apply.
C18_ApplyCleanRoundTrip ==
    /\ [](\A j \in DOMAIN entries : TargetsManaged(entries[j]))
    /\ [][(ApplyOkNoFault /\ ForeignOnly(pre) /\ CleanRan') => store' = pre]_vars

\* the names of the root-level entries of batch
RootNames(batch) == {batch[j].name : j \in {i \in DOMAIN batch : IsRootEntry(batch[i])}}

\* C19: after an apply, aborted or not, every root value whose name is not a
\* root-level entry of the batch is what it was before, no other root value
\* has appeared, and every child of the root key other than the extension
\* list is what it was before, none having appeared.
C19_ApplyFrame ==
    ApplyRan =>
        /\ \A n \in DOMAIN pre.values \ RootNames(entries) :
              store.present /\ n \in DOMAIN store.values /\ store.values[n] = pre.values[n]
        /\ DOMAIN store.values \subseteq DOMAIN pre.values \cup RootNames(entries)
        /\ \A k \in DOMAIN pre.subkeys \ {ListSubkey} :
              store.present /\ k \in DOMAIN store.subkeys /\ store.subkeys[k] = pre.subkeys[k]
        /\ DOMAIN store.subkeys \subseteq DOMAIN pre.subkeys \cup {ListSubkey}

\* an apply of a batch without search entries and without list entries, on a
\* store that held the search values of an earlier apply, a foreign value and
\* a list: the list is gone, the values are kept
C19_Witness ==
    /\ ApplyRan
    /\ result = Ok
    /\ "DefaultSearchProviderEnabled" \in DOMAIN pre.values \ RootNames(entries)
    /\ "DefaultSearchProviderEnabled" \in DOMAIN store.values
    /\ DOMAIN pre.values \ Range(MANAGED_VALUES) # {}
    /\ ListSubkey \in DOMAIN pre.subkeys
    /\ ListSubkey \notin DOMAIN store.subkeys

\* C20: when clean has opened the root key, made its delete calls and returned
\* success, no managed value and no managed container is left under the root
\* key: whatever delete call failed, its item is not there.
C20_CleanOkLeavesNothingManaged ==
    (CleanRan /\ result = Ok /\ pre.present /\ log[1].status = "ok") =>
        NoManagedItem(store)

====
